---------------------------- MODULE Spec2Model ----------------------------
(***************************************************************************)
(* Model of os_info's macOS detector (src/macos/mod.rs): the platform      *)
(* probe current_platform, the version classifier version, the semantic    *)
(* version parser parse_semantic_version, the sw_vers line matcher parse   *)
(* and the bitness classifier parse_bitness.                               *)
(*                                                                         *)
(* Text is a sequence of one-character strings.  Bytes are the same, with  *)
(* one extra value, BadByte, for a byte that is not valid UTF-8.  A u64 is *)
(* a canonical sequence of decimal digits (no leading zero, zero is <<0>>),*)
(* so that the real bound 2^64 - 1 is kept.                                *)
(***************************************************************************)
EXTENDS Integers, Sequences, FiniteSets, TLC

VARIABLES
    pc,            \* where the probe is: "idle", "product_version", "bitness", "return"
    sw,            \* outcome of spawning sw_vers in the current call
    gc,            \* outcome of spawning getconf LONG_BIT in the current call
    info_version,  \* the value version() returned in the current call
    info_bitness,  \* the value bitness() returned in the current call
    info,          \* the Info the last call returned
    log,           \* messages the current call sent to the log crate
    cmds,          \* the commands the current call spawned, in order
    history,       \* the completed calls: [sw, gc, info, log, cmds]
    parts,         \* pure-function runs: the pieces the argument is made of
    arg,           \* pure-function runs: the argument
    ret            \* pure-function runs: the value returned

vars == <<pc, sw, gc, info_version, info_bitness, info, log, cmds, history,
          parts, arg, ret>>

probe_vars == <<pc, sw, gc, info_version, info_bitness, info, log, cmds, history>>

(***************************************************************************)
(* Bounds of the model.                                                    *)
(***************************************************************************)
MaxParts == 4   \* dot-separated tokens in a version string
MaxBytes == 4   \* bytes of getconf output
MaxLines == 3   \* lines of sw_vers output given to the line matcher
MaxCalls == 3   \* completed probe calls with distinct records

(***************************************************************************)
(* Option, and the values of the os_info crate.                            *)
(***************************************************************************)
None == [tag |-> "None"]
Some(x) == [tag |-> "Some", val |-> x]
Panic == [tag |-> "Panic"]
Pending == [tag |-> "Pending"]
Unset == [tag |-> "Unset"]

VersionUnknown == [tag |-> "Unknown"]
VersionSemantic(major, minor, patch, edition) ==
    [tag |-> "Semantic", major |-> major, minor |-> minor, patch |-> patch,
     edition |-> edition]
VersionCustom(raw, edition) == [tag |-> "Custom", version |-> raw, edition |-> edition]

Bitness_Unknown == [bitness |-> "Unknown"]
Bitness_X32 == [bitness |-> "X32"]
Bitness_X64 == [bitness |-> "X64"]

(***************************************************************************)
(* Text helpers: str::trim, str::split, str::starts_with.                  *)
(***************************************************************************)
WhiteSpace == {" ", "\t", "\n", "\r"}

RECURSIVE trim_start(_)
trim_start(s) ==
    IF s # <<>> /\ Head(s) \in WhiteSpace THEN trim_start(Tail(s)) ELSE s

RECURSIVE trim_end(_)
trim_end(s) ==
    IF s # <<>> /\ s[Len(s)] \in WhiteSpace
    THEN trim_end(SubSeq(s, 1, Len(s) - 1))
    ELSE s

trim(s) == trim_end(trim_start(s))

\* str::split(sep): the pieces between the separators, empty pieces kept, so
\* that the empty string splits into one empty piece.
RECURSIVE split_from(_, _, _, _)
split_from(s, sep, i, cur) ==
    IF i > Len(s) THEN <<cur>>
    ELSE IF s[i] = sep THEN <<cur>> \o split_from(s, sep, i + 1, <<>>)
    ELSE split_from(s, sep, i + 1, Append(cur, s[i]))

split(s, sep) == split_from(s, sep, 1, <<>>)

starts_with(s, prefix) ==
    Len(s) >= Len(prefix) /\ SubSeq(s, 1, Len(prefix)) = prefix

\* The inverse the inputs are built with: pieces joined by a separator.
RECURSIVE Join(_, _)
Join(ps, sep) ==
    IF Len(ps) = 0 THEN <<>>
    ELSE IF Len(ps) = 1 THEN ps[1]
    ELSE ps[1] \o <<sep>> \o Join(Tail(ps), sep)

(***************************************************************************)
(* u64::from_str, as `parts[i].parse()` of parse_semantic_version uses it. *)
(***************************************************************************)
Digits == <<"0", "1", "2", "3", "4", "5", "6", "7", "8", "9">>
IsDigit(c) == \E d \in 1..10 : Digits[d] = c
DigitVal(c) == (CHOOSE d \in 1..10 : Digits[d] = c) - 1

U64_MAX == <<1, 8, 4, 4, 6, 7, 4, 4, 0, 7, 3, 7, 0, 9, 5, 5, 1, 6, 1, 5>>

\* a <= b for canonical digit sequences
RECURSIVE LexLe(_, _)
LexLe(a, b) ==
    IF a = <<>> THEN TRUE
    ELSE IF Head(a) # Head(b) THEN Head(a) < Head(b)
    ELSE LexLe(Tail(a), Tail(b))

NumLe(a, b) == Len(a) < Len(b) \/ (Len(a) = Len(b) /\ LexLe(a, b))

\* The unchecked step, result * 10 + digit with no bound: the mutant of
\* checked_push.
unchecked_push(acc, d) == Some(IF acc = <<0>> THEN <<d>> ELSE Append(acc, d))

\* result.checked_mul(10)?.checked_add(digit)?: None on overflow
checked_push(acc, d) ==
    LET n == IF acc = <<0>> THEN <<d>> ELSE Append(acc, d)
    IN  IF NumLe(n, U64_MAX) THEN Some(n) ELSE None

RECURSIVE parse_digits(_, _)
parse_digits(s, acc) ==
    IF s = <<>> THEN Some(acc)
    ELSE IF ~IsDigit(Head(s)) THEN None
    ELSE LET n == checked_push(acc, DigitVal(Head(s)))
         IN  IF n = None THEN None ELSE parse_digits(Tail(s), n.val)

\* <u64 as FromStr>::from_str(s).ok(): an empty string, a lone sign, a '-',
\* a non-digit and a value above u64::MAX are errors; one leading '+' is
\* accepted.
parse_u64(s) ==
    IF s = <<>> THEN None
    ELSE IF Len(s) = 1 /\ Head(s) \in {"+", "-"} THEN None
    ELSE IF Head(s) = "+" THEN parse_digits(Tail(s), <<0>>)
    ELSE parse_digits(s, <<0>>)

(***************************************************************************)
(* fn parse_semantic_version(version: &str) -> Option<(u64, u64, u64)>     *)
(***************************************************************************)
\* parts[i]: indexing a Vec out of range panics
Index(v, i) == IF i \in 1..Len(v) THEN Some(v[i]) ELSE Panic

\* The mutant of get_or: the index is off by one, parts.get(1).
get_or_off_by_one(v, i, default) ==
    IF i - 1 \in 1..Len(v) THEN v[i - 1] ELSE default

\* parts.get(2).unwrap_or(&"0")
get_or(v, i, default) == IF i \in 1..Len(v) THEN v[i] ELSE default

\* The mutant of wrong_len: the upper bound on the token count is missing.
wrong_len_no_upper(n) == n < 2

\* parts.len() < 2 || parts.len() > 3
wrong_len(n) == n < 2 \/ n > 3

parse_semantic_version(version) ==
    LET ps == split(version, ".")
    IN  IF wrong_len(Len(ps)) THEN None
        ELSE LET p0 == Index(ps, 1)
                 p1 == Index(ps, 2)
             IN  IF p0 = Panic \/ p1 = Panic THEN Panic
                 ELSE LET major == parse_u64(p0.val)
                          minor == parse_u64(p1.val)
                          patch == parse_u64(get_or(ps, 3, <<"0">>))
                      IN  IF major = None THEN None
                          ELSE IF minor = None THEN None
                          ELSE IF patch = None THEN None
                          ELSE Some(<<major.val, minor.val, patch.val>>)

(***************************************************************************)
(* Pure-function run of parse_semantic_version.                            *)
(***************************************************************************)
MaxDigits == <<"1", "8", "4", "4", "6", "7", "4", "4", "0", "7", "3", "7", "0",
               "9", "5", "5", "1", "6", "1", "5">>
MaxPlusOne == <<"1", "8", "4", "4", "6", "7", "4", "4", "0", "7", "3", "7", "0",
                "9", "5", "5", "1", "6", "1", "6">>

Tokens ==
    { <<>>, <<"0">>, <<"1", "0">>, <<"0", "0", "7">>, <<"a">>,
      <<"+", "1">>, <<"+">>, <<"-", "1">>, <<" ", "1">>,
      MaxDigits, MaxPlusOne, <<"0">> \o MaxDigits }

VersionParts == UNION { [1..n -> Tokens] : n \in 1..MaxParts }

ProbeIdle ==
    /\ pc = "idle" /\ sw = Unset /\ gc = Unset
    /\ info_version = Unset /\ info_bitness = Unset /\ info = Unset
    /\ log = <<>> /\ cmds = <<>> /\ history = {}

InitSemantic ==
    /\ ProbeIdle
    /\ parts \in VersionParts
    /\ arg = Join(parts, ".")
    /\ ret = Pending

ApplyParseSemanticVersion ==
    /\ ret = Pending
    /\ ret' = parse_semantic_version(arg)
    /\ UNCHANGED <<parts, arg, probe_vars>>

NextSemantic == ApplyParseSemanticVersion

SpecSemantic == InitSemantic /\ [][NextSemantic]_vars


(***************************************************************************)
(* fn parse_bitness(getconf_output: Vec<u8>) -> Bitness                    *)
(***************************************************************************)
BadByte == "\\xFF"          \* a byte that is valid in no UTF-8 sequence
ReplacementChar == "U+FFFD"

\* String::from_utf8: Err when a byte is not valid UTF-8
from_utf8(bytes) ==
    IF \E i \in 1..Len(bytes) : bytes[i] = BadByte THEN None ELSE Some(bytes)

\* String::from_utf8_lossy: an invalid byte becomes U+FFFD
from_utf8_lossy(bytes) ==
    [i \in 1..Len(bytes) |-> IF bytes[i] = BadByte THEN ReplacementChar ELSE bytes[i]]

Warn(target) == [level |-> "warn", target |-> target]
Trace(target) == [level |-> "trace", target |-> target]

\* The mutant of parse_bitness: the output compared without trim().
parse_bitness_no_trim(getconf_output) ==
    LET decoded == from_utf8(getconf_output)
    IN  IF decoded = None THEN Bitness_Unknown
        ELSE IF decoded.val = <<"3", "2">> THEN Bitness_X32
        ELSE IF decoded.val = <<"6", "4">> THEN Bitness_X64
        ELSE Bitness_Unknown

parse_bitness(getconf_output) ==
    LET decoded == from_utf8(getconf_output)
    IN  IF decoded = None THEN Bitness_Unknown
        ELSE IF trim(decoded.val) = <<"3", "2">> THEN Bitness_X32
        ELSE IF trim(decoded.val) = <<"6", "4">> THEN Bitness_X64
        ELSE Bitness_Unknown

\* what parse_bitness sends to the log: a warning on both Unknown arms
parse_bitness_log(getconf_output) ==
    IF parse_bitness(getconf_output) = Bitness_Unknown
    THEN IF from_utf8(getconf_output) = None
         THEN <<Warn("convert getconf output to String failed")>>
         ELSE <<Warn("Unknown bitness")>>
    ELSE <<>>

ByteAlphabet == {"3", "2", "6", "4", " ", "\n", "x", BadByte}

ByteStrings == UNION { [1..n -> ByteAlphabet] : n \in 0..MaxBytes }

InitBitness ==
    /\ ProbeIdle
    /\ parts \in { <<b>> : b \in ByteStrings }
    /\ arg = parts[1]
    /\ ret = Pending

ApplyParseBitness ==
    /\ ret = Pending
    /\ ret' = parse_bitness(arg)
    /\ UNCHANGED <<parts, arg, probe_vars>>

NextBitness == ApplyParseBitness

SpecBitness == InitBitness /\ [][NextBitness]_vars

(***************************************************************************)
(* fn parse(sw_vers_output: &str) -> Option<String>, and the line matcher  *)
(* Matcher::PrefixedVersion it calls.  The matcher's module is not part of *)
(* these sources; it is modelled from its specification: the first line    *)
(* that begins with the prefix gives the value, the rest of that line with *)
(* the whitespace at both ends removed.  The prefix is matched at the very *)
(* start of the line.                                                      *)
(***************************************************************************)
RECURSIVE first_match(_, _)
first_match(lines, prefix) ==
    IF lines = <<>> THEN None
    ELSE IF starts_with(Head(lines), prefix)
         THEN Some(trim(SubSeq(Head(lines), Len(prefix) + 1, Len(Head(lines)))))
         ELSE first_match(Tail(lines), prefix)

Matcher_PrefixedVersion_find(prefix, string) ==
    first_match(split(string, "\n"), prefix)

ProductVersionPrefix ==
    <<"P", "r", "o", "d", "u", "c", "t", "V", "e", "r", "s", "i", "o", "n",
     ":">>

\* The mutant of parse: the prefix of another line of sw_vers.
parse_product_name(sw_vers_output) ==
    Matcher_PrefixedVersion_find(
        <<"P", "r", "o", "d", "u", "c", "t", "N", "a", "m", "e", ":">>,
        sw_vers_output)

parse(sw_vers_output) ==
    Matcher_PrefixedVersion_find(ProductVersionPrefix, sw_vers_output)

ProductNameLine ==
    <<"P", "r", "o", "d", "u", "c", "t", "N", "a", "m", "e", ":", "\t",
      "M", "a", "c", " ", "O", "S", " ", "X">>
BuildVersionLine ==
    <<"B", "u", "i", "l", "d", "V", "e", "r", "s", "i", "o", "n", ":",
      "\t", "1", "4", "F", "2", "7">>

SwVersLines ==
    { ProductNameLine,
      BuildVersionLine \o <<"\r">>,
      ProductVersionPrefix \o <<"\t", "1", "0", ".", "1", "0", ".", "5">>,
      ProductVersionPrefix \o <<" ", "\t", "B", "e", "t", "a", "7", " ">>,
      ProductVersionPrefix,
      <<" ">> \o ProductVersionPrefix \o <<"\t", "1", ".", "2">>,
      <<>> }

InitParse ==
    /\ ProbeIdle
    /\ parts \in UNION { [1..n -> SwVersLines] : n \in 1..MaxLines }
    /\ arg = Join(parts, "\n")
    /\ ret = Pending

ApplyParse ==
    /\ ret = Pending
    /\ ret' = parse(arg)
    /\ UNCHANGED <<parts, arg, probe_vars>>

NextParse == ApplyParse

SpecParse == InitParse /\ [][NextParse]_vars


(***************************************************************************)
(* The probe: current_platform, version, product_version, bitness.         *)
(* A spawned command either fails to spawn or yields its stdout bytes.     *)
(***************************************************************************)
SpawnErr == [tag |-> "Err"]
SpawnOk(stdout) == [tag |-> "Ok", stdout |-> stdout]

\* fn product_version() -> Option<String>, given the outcome of sw_vers
product_version(outcome) ==
    IF outcome.tag = "Ok" THEN parse(from_utf8_lossy(outcome.stdout)) ELSE None

product_version_log(outcome) ==
    IF outcome.tag = "Ok"
    THEN <<Trace("sw_vers command returned")>>
    ELSE <<Warn("sw_vers command failed")>>

\* The mutant of version for the classification: a value that is not
\* semantic is dropped instead of kept as Custom.
version_drop_custom(outcome) ==
    LET pv == product_version(outcome)
    IN  IF pv = None THEN VersionUnknown
        ELSE LET sv == parse_semantic_version(pv.val)
             IN  IF sv = Panic THEN Panic
                 ELSE IF sv.tag = "Some"
                      THEN VersionSemantic(sv.val[1], sv.val[2], sv.val[3], None)
                      ELSE VersionUnknown

\* The mutant of version for the independence of calls: when no version is
\* found, the version of the last returned Info is kept.
version_cached(outcome) ==
    LET pv == product_version(outcome)
    IN  IF pv = None
        THEN IF info = Unset THEN VersionUnknown ELSE info.version
        ELSE LET sv == parse_semantic_version(pv.val)
             IN  IF sv = Panic THEN Panic
                 ELSE IF sv.tag = "Some"
                      THEN VersionSemantic(sv.val[1], sv.val[2], sv.val[3], None)
                      ELSE VersionCustom(pv.val, None)

\* fn version() -> Version, given the outcome of sw_vers
version(outcome) ==
    LET pv == product_version(outcome)
    IN  IF pv = None THEN VersionUnknown
        ELSE LET sv == parse_semantic_version(pv.val)
             IN  IF sv = Panic THEN Panic
                 ELSE IF sv.tag = "Some"
                      THEN VersionSemantic(sv.val[1], sv.val[2], sv.val[3], None)
                      ELSE VersionCustom(pv.val, None)

\* The mutant of bitness: a host whose getconf cannot be spawned is taken
\* to be 64-bit.
bitness_default_64(outcome) ==
    IF outcome.tag = "Ok" THEN parse_bitness(outcome.stdout) ELSE Bitness_X64

\* fn bitness() -> Bitness, given the outcome of getconf LONG_BIT
bitness(outcome) ==
    IF outcome.tag = "Ok" THEN parse_bitness(outcome.stdout) ELSE Bitness_Unknown

bitness_log(outcome) ==
    IF outcome.tag = "Ok"
    THEN parse_bitness_log(outcome.stdout)
    ELSE <<Trace("getconf command failed")>>

SwVersCommand == <<"sw_vers">>
GetconfCommand == <<"getconf", "LONG_BIT">>

NL == <<"\n">>

SwVersStdouts ==
    { ProductNameLine \o NL \o ProductVersionPrefix
        \o <<"\t", "1", "0", ".", "1", "0", ".", "5">> \o NL \o BuildVersionLine,
      ProductNameLine \o NL \o ProductVersionPrefix
        \o <<"\t", "1", "0", ".", "1", "5">> \o NL \o BuildVersionLine,
      ProductNameLine \o NL \o ProductVersionPrefix
        \o <<"\t", "B", "e", "t", "a", "7">> \o NL \o BuildVersionLine,
      ProductVersionPrefix \o <<"\t", "1", BadByte, ".", "2">> \o NL,
      ProductNameLine \o NL \o BuildVersionLine }

GetconfStdouts ==
    { <<"6", "4", "\n">>, <<"3", "2">>, <<"x", "\n">>, <<BadByte>> }

Init ==
    /\ ProbeIdle
    /\ parts = <<>> /\ arg = <<>> /\ ret = Pending

\* current_platform is entered: the trace! of line 8
current_platform_call ==
    /\ pc = "idle"
    /\ Cardinality(history) < MaxCalls
    /\ pc' = "product_version"
    /\ sw' = Unset /\ gc' = Unset
    /\ info_version' = Unset /\ info_bitness' = Unset
    /\ log' = <<Trace("macos::current_platform is called")>>
    /\ cmds' = <<>>
    /\ UNCHANGED <<info, history, parts, arg, ret>>

\* version(): sw_vers was spawned and gave stdout
version_ok(stdout) ==
    /\ pc = "product_version"
    /\ sw' = SpawnOk(stdout)
    /\ cmds' = Append(cmds, SwVersCommand)
    /\ info_version' = version(SpawnOk(stdout))
    /\ log' = log \o product_version_log(SpawnOk(stdout))
    /\ pc' = "bitness"
    /\ UNCHANGED <<gc, info_bitness, info, history, parts, arg, ret>>

\* The mutant of version_err: the probe gives up after the failed spawn and
\* returns without asking getconf.
version_err_give_up ==
    /\ pc = "product_version"
    /\ sw' = SpawnErr
    /\ cmds' = Append(cmds, SwVersCommand)
    /\ info_version' = version(SpawnErr)
    /\ info_bitness' = Bitness_Unknown
    /\ log' = log \o product_version_log(SpawnErr)
    /\ pc' = "return"
    /\ UNCHANGED <<gc, info, history, parts, arg, ret>>

\* version(): sw_vers could not be spawned
version_err ==
    /\ pc = "product_version"
    /\ sw' = SpawnErr
    /\ cmds' = Append(cmds, SwVersCommand)
    /\ info_version' = version(SpawnErr)
    /\ log' = log \o product_version_log(SpawnErr)
    /\ pc' = "bitness"
    /\ UNCHANGED <<gc, info_bitness, info, history, parts, arg, ret>>

\* bitness(): getconf LONG_BIT was spawned and gave stdout
bitness_ok(stdout) ==
    /\ pc = "bitness"
    /\ gc' = SpawnOk(stdout)
    /\ cmds' = Append(cmds, GetconfCommand)
    /\ info_bitness' = bitness(SpawnOk(stdout))
    /\ log' = log \o bitness_log(SpawnOk(stdout))
    /\ pc' = "return"
    /\ UNCHANGED <<sw, info_version, info, history, parts, arg, ret>>

\* bitness(): getconf could not be spawned
bitness_err ==
    /\ pc = "bitness"
    /\ gc' = SpawnErr
    /\ cmds' = Append(cmds, GetconfCommand)
    /\ info_bitness' = bitness(SpawnErr)
    /\ log' = log \o bitness_log(SpawnErr)
    /\ pc' = "return"
    /\ UNCHANGED <<sw, info_version, info, history, parts, arg, ret>>

\* current_platform returns the Info it built: lines 10-16
current_platform_return ==
    /\ pc = "return"
    /\ info' = [os_type |-> "Macos", version |-> info_version,
                bitness |-> info_bitness]
    /\ log' = Append(log, Trace("Returning"))
    /\ history' = history \cup {[sw |-> sw, gc |-> gc, info |-> info']}
    /\ pc' = "idle"
    /\ UNCHANGED <<sw, gc, info_version, info_bitness, cmds, parts, arg, ret>>

Next ==
    \/ current_platform_call
    \/ \E stdout \in SwVersStdouts : version_ok(stdout)
    \/ version_err
    \/ \E stdout \in GetconfStdouts : bitness_ok(stdout)
    \/ bitness_err
    \/ current_platform_return

Spec == Init /\ [][Next]_vars


(***************************************************************************)
(* The claims.  What a claim says of a version string is said of `parts`,  *)
(* the pieces the string was joined from, and of numbers read off the      *)
(* digits directly; the code works on `arg`, the joined string.            *)
(***************************************************************************)
IsDecimal(tok) == tok # <<>> /\ \A i \in 1..Len(tok) : IsDigit(tok[i])

RECURSIVE StripZeros(_)
StripZeros(ds) == IF Len(ds) > 1 /\ Head(ds) = 0 THEN StripZeros(Tail(ds)) ELSE ds

\* the number a string of decimal digits denotes
DecimalValue(tok) == StripZeros([i \in 1..Len(tok) |-> DigitVal(tok[i])])

FitsU64(tok) == NumLe(DecimalValue(tok), U64_MAX)

\* decimal digits, with at most one '+' before them
Unsigned(tok) == IF tok # <<>> /\ Head(tok) = "+" THEN Tail(tok) ELSE tok
IsSignedDecimal(tok) == IsDecimal(Unsigned(tok))

Returned == ret # Pending

\* C1: a string "{maj}.{min}" or "{maj}.{min}.{pat}" of decimal numbers that
\* fit u64 parses to exactly (maj, min, pat), pat being 0 when omitted.
C1_WellFormedParses ==
    (/\ Returned
     /\ Len(parts) \in {2, 3}
     /\ \A i \in 1..Len(parts) : IsDecimal(parts[i]) /\ FitsU64(parts[i]))
    => ret = Some(<<DecimalValue(parts[1]), DecimalValue(parts[2]),
                    IF Len(parts) = 3 THEN DecimalValue(parts[3]) ELSE <<0>> >>)

C1_Witness ==
    /\ parts = << MaxDigits, <<"0", "0", "7">> >>
    /\ ret = Some(<<U64_MAX, <<7>>, <<0>> >>)

\* C2 as claimed: a string with a token count other than 2 or 3, or with a
\* token that is empty or not made of decimal digits, is not semantic, and
\* parsing never panics.
C2_Original ==
    /\ ret # Panic
    /\ (/\ Returned
        /\ \/ Len(parts) \notin {2, 3}
           \/ \E i \in 1..Len(parts) : ~IsDecimal(parts[i]))
       => ret = None

\* C2 as amended: a string with a token count other than 2 or 3, or with a
\* token that is not a run of decimal digits with at most one '+' before
\* it, is not semantic, and parsing never panics.
C2_MalformedRejected ==
    /\ ret # Panic
    /\ (/\ Returned
        /\ \/ Len(parts) \notin {2, 3}
           \/ \E i \in 1..Len(parts) : ~IsSignedDecimal(parts[i]))
       => ret = None

C2_Witness ==
    /\ parts = << <<"0">>, <<"1", "0">>, <<"0", "0", "7">>, <<>> >>
    /\ arg = <<"0", ".", "1", "0", ".", "0", "0", "7", ".">>
    /\ ret = None

\* C9: a token above 2^64 - 1 makes the string not semantic, and every
\* component returned is the number its token denotes and is at most
\* 2^64 - 1.
C9_NoWrapOnOverflow ==
    /\ (/\ Returned
        /\ Len(parts) \in {2, 3}
        /\ \E i \in 1..Len(parts) :
              IsSignedDecimal(parts[i]) /\ ~FitsU64(Unsigned(parts[i])))
       => ret = None
    /\ (Returned /\ ret.tag = "Some")
       => \A i \in 1..3 :
             /\ NumLe(ret.val[i], U64_MAX)
             /\ i <= Len(parts) => ret.val[i] = DecimalValue(Unsigned(parts[i]))

C9_Witness ==
    /\ parts = << <<"1", "0">>, MaxPlusOne >>
    /\ ret = None

\* a byte string that is `lit` with only whitespace before and after it
TrimsTo(bytes, lit) ==
    \E i \in 1..(Len(bytes) - Len(lit) + 1) :
        /\ SubSeq(bytes, i, i + Len(lit) - 1) = lit
        /\ \A j \in 1..Len(bytes) :
              (j < i \/ j >= i + Len(lit)) => bytes[j] \in WhiteSpace

IsText(bytes) == \A i \in 1..Len(bytes) : bytes[i] # BadByte

\* C4: parse_bitness returns X32 exactly for text that trims to "32", X64
\* exactly for text that trims to "64", and Unknown for everything else,
\* bytes that are not text included.
C4_BitnessTotal ==
    Returned =>
        /\ ret \in {Bitness_X32, Bitness_X64, Bitness_Unknown}
        /\ ret = Bitness_X32 <=> (IsText(arg) /\ TrimsTo(arg, <<"3", "2">>))
        /\ ret = Bitness_X64 <=> (IsText(arg) /\ TrimsTo(arg, <<"6", "4">>))
        /\ ~IsText(arg) => ret = Bitness_Unknown

C4_Witness ==
    /\ arg = <<" ", "6", "4", "\n">>
    /\ ret = Bitness_X64

\* the lines of `parts` that begin with the ProductVersion: prefix
MatchingLines == {i \in 1..Len(parts) : starts_with(parts[i], ProductVersionPrefix)}

\* v is s without the whitespace at its two ends
IsTrimOf(v, s) ==
    /\ v # <<>> => (v[1] \notin WhiteSpace /\ v[Len(v)] \notin WhiteSpace)
    /\ \E i \in 1..(Len(s) - Len(v) + 1) :
          /\ SubSeq(s, i, i + Len(v) - 1) = v
          /\ \A j \in 1..Len(s) :
                (j < i \/ j >= i + Len(v)) => s[j] \in WhiteSpace

\* C6: the line matcher returns the rest of the first line that begins with
\* "ProductVersion:", without the whitespace at its ends, and None when no
\* line begins with it.
C6_FirstMatchingLine ==
    Returned =>
        IF MatchingLines = {} THEN ret = None
        ELSE LET k == CHOOSE i \in MatchingLines : \A j \in MatchingLines : i <= j
                 rest == SubSeq(parts[k], Len(ProductVersionPrefix) + 1, Len(parts[k]))
             IN  ret.tag = "Some" /\ IsTrimOf(ret.val, rest)

C6_Witness ==
    /\ Len(parts) = 3
    /\ parts[1] = ProductNameLine
    /\ parts[2] = ProductVersionPrefix \o <<" ", "\t", "B", "e", "t", "a", "7", " ">>
    /\ parts[3] = ProductVersionPrefix \o <<"\t", "1", "0", ".", "1", "0", ".", "5">>
    /\ ret = Some(<<"B", "e", "t", "a", "7">>)

\* version() has just returned
VersionDone == pc = "bitness"

StdoutWithVersion(v) ==
    ProductNameLine \o NL \o ProductVersionPrefix \o <<"\t">> \o v \o NL
        \o BuildVersionLine

\* C3: the version of command output is Unknown when the line matcher finds
\* no ProductVersion: value, Semantic(major, minor, patch, None) when the
\* value is semantic, and Custom(value, None) otherwise.
C3_VersionClassified ==
    (VersionDone /\ sw.tag = "Ok") =>
        LET found == parse(from_utf8_lossy(sw.stdout))
            sem == parse_semantic_version(found.val)
        IN  /\ info_version.tag \in {"Unknown", "Semantic", "Custom"}
            /\ found = None => info_version = VersionUnknown
            /\ (found # None /\ sem # None) =>
                  info_version = [tag |-> "Semantic", major |-> sem.val[1],
                                  minor |-> sem.val[2], patch |-> sem.val[3],
                                  edition |-> None]
            /\ (found # None /\ sem = None) =>
                  info_version = [tag |-> "Custom", version |-> found.val,
                                  edition |-> None]
            /\ sw.stdout = StdoutWithVersion(<<"1", "0", ".", "1", "5">>) =>
                  info_version = [tag |-> "Semantic", major |-> <<1, 0>>,
                                  minor |-> <<1, 5>>, patch |-> <<0>>,
                                  edition |-> None]
            /\ sw.stdout = StdoutWithVersion(<<"B", "e", "t", "a", "7">>) =>
                  info_version = [tag |-> "Custom",
                                  version |-> <<"B", "e", "t", "a", "7">>,
                                  edition |-> None]

C3_Witness ==
    /\ pc = "bitness"
    /\ sw = SpawnOk(StdoutWithVersion(<<"B", "e", "t", "a", "7">>))
    /\ info_version = VersionCustom(<<"B", "e", "t", "a", "7">>, None)

\* C5: every call returns an Info with os_type Macos; a failed spawn of
\* sw_vers gives version Unknown, a failed spawn of getconf gives bitness
\* Unknown, and neither field depends on the other command's outcome.
C5_ProbeTotal ==
    /\ info_version # Panic
    /\ \A r \in history :
          /\ r.info.os_type = "Macos"
          /\ r.info.version.tag \in {"Unknown", "Semantic", "Custom"}
          /\ r.info.bitness \in {Bitness_X32, Bitness_X64, Bitness_Unknown}
          /\ r.sw = SpawnErr => r.info.version = VersionUnknown
          /\ r.gc = SpawnErr => r.info.bitness = Bitness_Unknown
    /\ \A r1, r2 \in history :
          /\ r1.sw = r2.sw => r1.info.version = r2.info.version
          /\ r1.gc = r2.gc => r1.info.bitness = r2.info.bitness
    /\ (pc = "idle" /\ sw # Unset) =>
          [sw |-> sw, gc |-> gc, info |-> info] \in history

C5_Witness ==
    /\ pc = "idle"
    /\ \E r \in history :
          /\ r.sw = SpawnErr /\ r.gc = SpawnOk(<<"6", "4", "\n">>)
          /\ r.info = [os_type |-> "Macos", version |-> VersionUnknown,
                       bitness |-> Bitness_X64]
    /\ \E r \in history :
          /\ r.sw.tag = "Ok" /\ r.gc = SpawnErr
          /\ r.info.version.tag = "Semantic"
          /\ r.info.bitness = Bitness_Unknown

\* C7: two calls that observe the same sw_vers outcome and the same getconf
\* outcome return equal Info values.
C7_Deterministic ==
    /\ \A r1, r2 \in history :
          (r1.sw = r2.sw /\ r1.gc = r2.gc) => r1.info = r2.info
    /\ pc = "return" =>
          \A r \in history :
              (r.sw = sw /\ r.gc = gc) =>
                  r.info = [os_type |-> "Macos", version |-> info_version,
                            bitness |-> info_bitness]

\* a later call is about to return after outcomes an earlier call had, with
\* a call of another outcome in between
C7_Witness ==
    /\ pc = "return"
    /\ sw = SpawnErr
    /\ \E r \in history : r.sw = sw /\ r.gc = gc
    /\ info # Unset /\ info.version.tag = "Semantic"

\* C8 as claimed: after a failed spawn, of sw_vers and of getconf alike, the
\* message the probe has just logged is a warning.
C8_WarnOnEverySpawnFailure ==
    /\ (pc = "bitness" /\ sw = SpawnErr) => log[Len(log)].level = "warn"
    /\ (pc = "return" /\ gc = SpawnErr) => log[Len(log)].level = "warn"

\* C10: a call spawns sw_vers once, then getconf LONG_BIT once, whatever
\* sw_vers gave, and nothing else.
C10_EachCommandOnce ==
    /\ pc = "product_version" => cmds = <<>>
    /\ pc = "bitness" => cmds = <<SwVersCommand>>
    /\ pc = "return" => (cmds = <<SwVersCommand, GetconfCommand>> /\ gc # Unset)
    /\ (pc = "idle" /\ info # Unset) => cmds = <<SwVersCommand, GetconfCommand>>

C10_Witness ==
    /\ pc = "idle"
    /\ sw = SpawnErr
    /\ gc.tag = "Ok"
    /\ cmds = <<SwVersCommand, GetconfCommand>>
    /\ info.bitness = Bitness_X64

=============================================================================
